---- MODULE Spec2Model ----
(***************************************************************************)
(* Playlist-Master: the track adapters, the matcher, the tag writer and    *)
(* the two playlist pipelines of src/playlist_master/downloader.py.        *)
(*                                                                         *)
(* Python values are represented as follows.                               *)
(*   - None / a value v        : None == <<>>, Some(v) == <<v>>            *)
(*   - a dict                  : a record; a missing key is a key that is  *)
(*                               not in the record's DOMAIN                *)
(*   - a list                  : a sequence                                *)
(*   - a string that the code takes apart or builds (a date, a search      *)
(*     query, an output template, a joined artist list): the sequence of   *)
(*     its pieces, so that concatenation is \o and split/rindex look for   *)
(*     a separator piece                                                   *)
(*   - a URL                   : a pair <<prefix, id>>                     *)
(*   - a raised exception      : the name of its Python class              *)
(***************************************************************************)
EXTENDS Integers, Sequences, FiniteSets, TLC

\* ------------------------------------------------------------------ bounds
MaxItems == 2          \* longest playlist explored
MaxThumbs == 3         \* most thumbnails an item carries
MaxRequested == 10     \* largest requested thumbnail ordinal (the enum is 0..4)

\* ----------------------------------------------------------- python basics
None == <<>>
Some(v) == <<v>>

Min(a, b) == IF a <= b THEN a ELSE b

HasKey(d, k) == k \in DOMAIN d

Drop(d, k) == [x \in (DOMAIN d) \ {k} |-> d[x]]

\* s[idx] on a Python list: negative indices count from the end
PyIndexOK(s, idx) == (-Len(s) <= idx) /\ (idx < Len(s))

PyIndex(s, idx) == IF idx >= 0 THEN s[idx + 1] ELSE s[Len(s) + idx + 1]

NoExc == "none"

Ok(v) == [exc |-> NoExc, val |-> v]

Raise(kind) == [exc |-> kind, val |-> None]

\* [e["name"] for e in entries]: KeyError when an entry has no "name"
NamesOK(entries) == \A i \in 1..Len(entries) : HasKey(entries[i], "name")

Names(entries) == [i \in 1..Len(entries) |-> entries[i].name]

\* -------------------------------------------------------------- class Track
Track(artists, album_artists, title, album_title, release_date, art_url, track_number, total_tracks, disc_number, explicit) ==
    [artists |-> artists,
     album_artists |-> album_artists,
     title |-> title,
     album_title |-> album_title,
     release_date |-> release_date,
     art_url |-> art_url,
     track_number |-> track_number,
     total_tracks |-> total_tracks,
     disc_number |-> disc_number,
     explicit |-> explicit]

\* ------------------------------------------------------------- format_date
\* date.split('-')[0]: the pieces before the first "-"
FirstDash(s) ==
    IF \E i \in 1..Len(s) : s[i] = "-"
    THEN CHOOSE i \in 1..Len(s) : s[i] = "-" /\ \A j \in 1..(i - 1) : s[j] # "-"
    ELSE Len(s) + 1

format_date(date) ==
    IF date = None THEN None ELSE Some(SubSeq(date[1], 1, FirstDash(date[1]) - 1))

\* ------------------------------------------------- get_spotify_track_info
\* The body of the try block (lines 130-142): the arguments of Track(...) are
\* evaluated left to right, the first failing subscript raises.
spotify_try_body(track) ==
    IF track = None THEN Raise("TypeError")
    ELSE LET t == track[1] IN
    IF ~HasKey(t, "album") THEN Raise("KeyError")
    ELSE LET album == t.album IN
    IF ~HasKey(t, "artists") THEN Raise("KeyError")
    ELSE IF ~NamesOK(t.artists) THEN Raise("KeyError")
    ELSE IF album = None THEN Raise("TypeError")
    ELSE LET a == album[1] IN
    IF ~HasKey(a, "album_type") THEN Raise("KeyError")
    ELSE IF a.album_type # "compilation" /\ ~HasKey(a, "artists") THEN Raise("KeyError")
    ELSE IF a.album_type # "compilation" /\ ~NamesOK(a.artists) THEN Raise("KeyError")
    ELSE IF ~HasKey(t, "name") THEN Raise("KeyError")
    ELSE IF a.album_type # "single" /\ ~HasKey(a, "name") THEN Raise("KeyError")
    ELSE IF ~HasKey(a, "release_date") THEN Raise("KeyError")
    ELSE IF ~HasKey(a, "images") THEN Raise("KeyError")
    ELSE IF a.images # <<>> /\ ~HasKey(a.images[1], "url") THEN Raise("KeyError")
    ELSE IF ~HasKey(t, "track_number") THEN Raise("KeyError")
    ELSE IF ~HasKey(a, "total_tracks") THEN Raise("KeyError")
    ELSE IF ~HasKey(t, "disc_number") THEN Raise("KeyError")
    ELSE IF ~HasKey(t, "explicit") THEN Raise("KeyError")
    ELSE Ok(Some(Track(
            Names(t.artists),
            IF a.album_type = "compilation" THEN <<"Various Artists">> ELSE Names(a.artists),
            t.name,
            IF a.album_type = "single" THEN None ELSE Some(a.name),
            format_date(a.release_date),
            IF a.images # <<>> THEN Some(a.images[1].url) ELSE None,
            Some(t.track_number),
            Some(a.total_tracks),
            Some(t.disc_number),
            t.explicit)))

\* except Exception: every exception class of the body is caught
ExceptionClasses == {"KeyError", "TypeError", "IndexError", "AttributeError", "ExternalError"}

CaughtByExceptException(kind) == kind \in ExceptionClasses

\* A narrower handler: except KeyError
CaughtByExceptKeyError(kind) == kind = "KeyError"

\* The result of a call: the exception that escaped (NoExc if none), the
\* returned value, and the number of logger.error calls made.
AdapterResult(body, logger) ==
    IF body.exc = NoExc
    THEN [raised |-> NoExc, ret |-> body.val, errors |-> 0]
    ELSE IF CaughtByExceptException(body.exc)
    THEN [raised |-> NoExc, ret |-> None, errors |-> IF logger THEN 2 ELSE 0]
    ELSE [raised |-> body.exc, ret |-> None, errors |-> 0]

AdapterResultKeyErrorOnly(body, logger) ==
    IF body.exc = NoExc
    THEN [raised |-> NoExc, ret |-> body.val, errors |-> 0]
    ELSE IF CaughtByExceptKeyError(body.exc)
    THEN [raised |-> NoExc, ret |-> None, errors |-> IF logger THEN 2 ELSE 0]
    ELSE [raised |-> body.exc, ret |-> None, errors |-> 0]

get_spotify_track_info_KeyErrorOnly(track, logger) ==
    AdapterResultKeyErrorOnly(spotify_try_body(track), logger)

get_spotify_track_info(track, logger) ==
    AdapterResult(spotify_try_body(track), logger)

\* ------------------------------------------------- get_youtube_track_info
\* min(tl - 1, thumbnail_quality), the subscript of line 175
ThumbnailIndexUnclamped(tl, thumbnail_quality) == thumbnail_quality

ThumbnailIndex(tl, thumbnail_quality) == Min(tl - 1, thumbnail_quality)

\* `not album`
NotAlbum(album) == album = None

\* list(filter(lambda t: t["videoId"] == track["videoId"], album["tracks"]))
FilterOK(t, tracks) ==
    \A i \in 1..Len(tracks) : HasKey(tracks[i], "videoId") /\ HasKey(t, "videoId")

track_misc_info(t, album) ==
    IF NotAlbum(album) THEN None
    ELSE SelectSeq(album[1].tracks, LAMBDA e : e.videoId = t.videoId)

\* `if track_misc_info and len(track_misc_info) == 0` (line 165) never holds:
\* an empty list is falsy, so the assignment of line 166 is never executed.
MiscInfoReset(info) == info # <<>> /\ Len(info) = 0

OkT(v, i) == [exc |-> NoExc, val |-> v, thumb |-> i]

RaiseT(kind, i) == [exc |-> kind, val |-> None, thumb |-> i]

\* The body of the try block (lines 160-180). thumb is the subscript applied
\* to track["thumbnails"], None when evaluation stops before line 175.
youtube_try_body(track, thumbnail_quality, album) ==
    IF track = None THEN RaiseT("TypeError", None)
    ELSE LET t == track[1] IN
    IF ~HasKey(t, "thumbnails") THEN RaiseT("KeyError", None)
    ELSE LET tl == Len(t.thumbnails)
             idx == ThumbnailIndex(tl, thumbnail_quality)
         IN
    IF ~NotAlbum(album) /\ ~HasKey(album[1], "tracks") THEN RaiseT("KeyError", None)
    ELSE IF ~NotAlbum(album) /\ ~FilterOK(t, album[1].tracks) THEN RaiseT("KeyError", None)
    ELSE LET info0 == track_misc_info(t, album)
             info == IF MiscInfoReset(info0) THEN None ELSE info0
         IN
    IF ~HasKey(t, "artists") THEN RaiseT("KeyError", None)
    ELSE IF ~NamesOK(t.artists) THEN RaiseT("KeyError", None)
    ELSE IF NotAlbum(album) /\ t.artists = <<>> THEN RaiseT("IndexError", None)
    ELSE IF ~NotAlbum(album) /\ ~HasKey(album[1], "artists") THEN RaiseT("KeyError", None)
    ELSE IF ~NotAlbum(album) /\ ~NamesOK(album[1].artists) THEN RaiseT("KeyError", None)
    ELSE IF ~HasKey(t, "title") THEN RaiseT("KeyError", None)
    ELSE IF ~NotAlbum(album) /\ ~HasKey(album[1], "title") THEN RaiseT("KeyError", None)
    ELSE IF ~NotAlbum(album) /\ ~HasKey(album[1], "year") THEN RaiseT("KeyError", None)
    ELSE IF ~PyIndexOK(t.thumbnails, idx) THEN RaiseT("IndexError", Some(idx))
    ELSE IF ~HasKey(PyIndex(t.thumbnails, idx), "url") THEN RaiseT("KeyError", Some(idx))
    \* track_misc_info is a list: track_misc_info["trackNumber"] is a TypeError
    ELSE IF info # <<>> THEN RaiseT("TypeError", Some(idx))
    ELSE IF ~NotAlbum(album) /\ ~HasKey(album[1], "trackCount") THEN RaiseT("KeyError", Some(idx))
    ELSE IF ~HasKey(t, "isExplicit") THEN RaiseT("KeyError", Some(idx))
    ELSE OkT(Some(Track(
            Names(t.artists),
            IF NotAlbum(album) THEN <<t.artists[1].name>> ELSE Names(album[1].artists),
            t.title,
            IF NotAlbum(album) THEN Some("Singles") ELSE Some(album[1].title),
            IF NotAlbum(album) THEN None ELSE Some(album[1].year),
            Some(PyIndex(t.thumbnails, idx).url),
            None,
            IF NotAlbum(album) THEN None ELSE Some(album[1].trackCount),
            None,
            t.isExplicit)), Some(idx))

get_youtube_track_info(track, thumbnail_quality, album, logger) ==
    LET body == youtube_try_body(track, thumbnail_quality, album)
        r == AdapterResult(body, logger)
    IN [raised |-> r.raised, ret |-> r.ret, errors |-> r.errors, thumb |-> body.thumb]

\* ------------------------------------------------------------- raw inputs
\* What the Spotify Web API returns as item["track"]
SpTrack(artists, album_type, album_artists, release_date, images, explicit) ==
    [name |-> "Song",
     artists |-> artists,
     track_number |-> 1,
     disc_number |-> 1,
     explicit |-> explicit,
     album |-> Some([album_type |-> album_type,
                     name |-> "Album",
                     artists |-> album_artists,
                     release_date |-> release_date,
                     images |-> images,
                     total_tracks |-> 9])]

ArtistLists == {<<>>, <<[name |-> "Artist"]>>, <<[name |-> "Artist"], [name |-> "Band"]>>}

AlbumArtistLists == {<<[name |-> "Various Artists"]>>, <<[name |-> "Artist"]>>}

AlbumTypes == {"album", "single", "compilation"}

ReleaseDates == {None, Some(<<"2024", "-", "03", "-", "15">>), Some(<<"2024">>)}

ImageLists == {<<>>, <<[url |-> <<"img", 0>>]>>}

SpTrackKeys == {"album", "artists", "name", "track_number", "disc_number", "explicit"}

SpAlbumKeys == {"album_type", "artists", "name", "release_date", "images", "total_tracks"}

\* items that carry every key the adapter reads
SpWellFormed ==
    {SpTrack(ar, ty, aa, rd, im, ex) :
        ar \in ArtistLists, ty \in AlbumTypes, aa \in AlbumArtistLists,
        rd \in ReleaseDates, im \in ImageLists, ex \in BOOLEAN}

DropAlbumKey(t, k) == [t EXCEPT !.album = Some(Drop(t.album[1], k))]

\* items with one key missing, a null album, an artist entry without a name
SpMalformed ==
    {Drop(t, k) : t \in SpWellFormed, k \in SpTrackKeys}
    \cup {DropAlbumKey(t, k) : t \in SpWellFormed, k \in SpAlbumKeys}
    \cup {[t EXCEPT !.album = None] : t \in SpWellFormed}
    \cup {[t EXCEPT !.artists = <<[id |-> 1]>>] : t \in SpWellFormed}

\* the values item["track"] takes: a dict or null
SpInputs == {None} \cup {Some(t) : t \in SpWellFormed \cup SpMalformed}

\* What ytmusicapi returns as a playlist track
YtTrack(artists, nthumbs, explicit, album) ==
    [videoId |-> "v1",
     title |-> "Song",
     artists |-> artists,
     thumbnails |-> [i \in 1..nthumbs |-> [url |-> <<"thumb", i - 1>>]],
     isExplicit |-> explicit,
     album |-> album]

YtAlbumRefs == {None, Some([id |-> "alb"])}

YtTrackKeys == {"videoId", "title", "artists", "thumbnails", "isExplicit"}

YtWellFormed ==
    {YtTrack(ar, n, ex, Some([id |-> "alb"])) :
        ar \in ArtistLists, n \in 0..MaxThumbs, ex \in BOOLEAN}

YtMalformed ==
    {Drop(t, k) : t \in YtWellFormed, k \in YtTrackKeys}
    \cup {[t EXCEPT !.thumbnails = <<[width |-> 60]>>] : t \in YtWellFormed}

YtInputs == {None} \cup {Some(t) : t \in YtWellFormed \cup YtMalformed}

\* What ytauth.get_album returns
YtAlbum(tracks) ==
    [title |-> "Album",
     artists |-> <<[name |-> "Band"]>>,
     year |-> <<"2024">>,
     trackCount |-> 3,
     tracks |-> tracks]

AlbumTrackLists ==
    {<<>>,
     <<[videoId |-> "v0", trackNumber |-> 1]>>,
     <<[videoId |-> "v1", trackNumber |-> 2]>>,
     <<[videoId |-> "v0", trackNumber |-> 1], [videoId |-> "v1", trackNumber |-> 2]>>}

YtAlbumKeys == {"title", "artists", "year", "trackCount", "tracks"}

YtAlbumsWellFormed == {YtAlbum(tl) : tl \in AlbumTrackLists}

YtAlbumsMalformed ==
    {Drop(a, k) : a \in YtAlbumsWellFormed, k \in YtAlbumKeys}
    \cup {[a EXCEPT !.tracks = <<[trackNumber |-> 1]>>] : a \in YtAlbumsWellFormed}

YtAlbumInputs == {None} \cup {Some(a) : a \in YtAlbumsWellFormed \cup YtAlbumsMalformed}

RequestedOrdinals == 0..MaxRequested

\* ------------------------------------------------------------------- state
VARIABLES
    adIn,        \* adapter under test: its arguments
    adOut,       \* adapter under test: None, or Some(result of the call)
    mdIn,        \* apply_metadata under test: its arguments
    mdOut,       \* apply_metadata under test: None, or Some(result)
    platform,    \* config["playlist-master"]["platform"]
    sort,        \* config["playlist-master"]["sort"]
    config_outtmpl, \* the output template parsed from config["yt-dlp"]["options"]
    quality,     \* the thumbnail ordinal the config selects
    playlist,    \* the raw items the playlist source returned
    tracks,      \* download_spotify_playlist: the adapted list of line 297
    idx,         \* position of the for loop (1-based)
    pc,          \* position of the running pipeline
    track_info,  \* the record of the item being processed
    url,         \* the URL of the item being processed
    outtmpl,     \* ytdlp_options["outtmpl"]["default"]
    outputs,     \* the downloaded-file log
    log,         \* the logger's records
    searches,    \* the queries sent to the search
    downloads,   \* the downloads triggered
    tagwrites,   \* the calls of apply_metadata
    raised       \* the exception that escaped the pipeline, None if none did

vars == <<adIn, adOut, mdIn, mdOut, platform, sort, config_outtmpl, quality, playlist, tracks, idx, pc,
          track_info, url, outtmpl, outputs, log, searches, downloads, tagwrites, raised>>

adVars == <<adIn, adOut>>

mdVars == <<mdIn, mdOut>>

plVars == <<platform, sort, config_outtmpl, quality, playlist, tracks, idx, pc,
            track_info, url, outtmpl, outputs, log, searches, downloads, tagwrites, raised>>

NoAdapterCall == adIn = None /\ adOut = None

NoMetadataCall == mdIn = None /\ mdOut = None

NoPipeline ==
    /\ platform = "none"
    /\ sort = FALSE
    /\ config_outtmpl = <<>>
    /\ quality = 0
    /\ playlist = <<>>
    /\ tracks = <<>>
    /\ idx = 1
    /\ pc = "idle"
    /\ track_info = None
    /\ url = None
    /\ outtmpl = <<>>
    /\ outputs = <<>>
    /\ log = <<>>
    /\ searches = <<>>
    /\ downloads = <<>>
    /\ tagwrites = <<>>
    /\ raised = None

\* ------------------------------------------------- the adapters on their own
InitAdapt ==
    /\ \/ \E t \in SpInputs, lg \in BOOLEAN :
            adIn = Some([fn |-> "spotify", track |-> t, thumbnail_quality |-> 0,
                         album |-> None, logger |-> lg])
       \/ \E t \in YtInputs, q \in RequestedOrdinals, a \in YtAlbumInputs, lg \in BOOLEAN :
            adIn = Some([fn |-> "youtube", track |-> t, thumbnail_quality |-> q,
                         album |-> a, logger |-> lg])
    /\ adOut = None
    /\ NoMetadataCall
    /\ NoPipeline

CallSpotifyAdapter ==
    /\ adOut = None
    /\ adIn[1].fn = "spotify"
    /\ adOut' = Some(get_spotify_track_info(adIn[1].track, adIn[1].logger))
    /\ UNCHANGED <<adIn, mdVars, plVars>>

CallYoutubeAdapter ==
    /\ adOut = None
    /\ adIn[1].fn = "youtube"
    /\ adOut' = Some(get_youtube_track_info(adIn[1].track, adIn[1].thumbnail_quality,
                                            adIn[1].album, adIn[1].logger))
    /\ UNCHANGED <<adIn, mdVars, plVars>>

NextAdapt == CallSpotifyAdapter \/ CallYoutubeAdapter

SpecAdapt == InitAdapt /\ [][NextAdapt]_vars

\* ------------------------------------------------ properties of the adapters
AdCalled == adOut # None

AdResult == adOut[1]

AdArgs == adIn[1]

\* C5: for every Platform-A raw item on which get_spotify_track_info returns a
\* record, the record's artists list is non-empty and its album_artists equals
\* ["Various Artists"] if and only if the album's type tag is "compilation".
C5_ArtistsNonEmptyAndVariousIffCompilation ==
    (AdCalled /\ AdArgs.fn = "spotify" /\ AdResult.ret # None) =>
        LET r == AdResult.ret[1]
            a == AdArgs.track[1].album[1]
        IN /\ r.artists # <<>>
           /\ (r.album_artists = <<"Various Artists">>) <=> (a.album_type = "compilation")

\* The raw item lacks a field that get_spotify_track_info reads.
SpLacksRequired(track) ==
    \/ track = None
    \/ LET t == track[1] IN
        \/ \E k \in SpTrackKeys : ~HasKey(t, k)
        \/ HasKey(t, "artists") /\ \E i \in 1..Len(t.artists) : ~HasKey(t.artists[i], "name")
        \/ HasKey(t, "album") /\ t.album = None
        \/ HasKey(t, "album") /\ t.album # None /\
            LET a == t.album[1] IN
            \/ \E k \in {"album_type", "release_date", "images", "total_tracks"} : ~HasKey(a, k)
            \/ HasKey(a, "album_type") /\ a.album_type # "compilation" /\ ~HasKey(a, "artists")
            \/ HasKey(a, "album_type") /\ a.album_type # "single" /\ ~HasKey(a, "name")

\* The raw item or album lacks a field that get_youtube_track_info reads, or
\* holds an empty list where the adapter takes an element.
YtLacksRequired(track, album) ==
    \/ track = None
    \/ LET t == track[1] IN
        \/ \E k \in {"title", "artists", "thumbnails", "isExplicit"} : ~HasKey(t, k)
        \/ HasKey(t, "thumbnails") /\ t.thumbnails = <<>>
        \/ HasKey(t, "thumbnails") /\ t.thumbnails # <<>> /\
            \A i \in 1..Len(t.thumbnails) : ~HasKey(t.thumbnails[i], "url")
        \/ album = None /\ HasKey(t, "artists") /\ t.artists = <<>>
        \/ album # None /\ \E k \in YtAlbumKeys : ~HasKey(album[1], k)
        \/ album # None /\ HasKey(album[1], "tracks") /\ album[1].tracks # <<>> /\
            (\/ ~HasKey(t, "videoId")
             \/ \E i \in 1..Len(album[1].tracks) : ~HasKey(album[1].tracks[i], "videoId"))

AdLacksRequired ==
    IF AdArgs.fn = "spotify"
    THEN SpLacksRequired(AdArgs.track)
    ELSE YtLacksRequired(AdArgs.track, AdArgs.album)

\* C6: for every raw item that lacks a required field (missing key, wrong
\* type, absent item, empty list that is indexed), each adapter returns None
\* and lets no exception escape, with or without a logger.
C6_MissingFieldReturnsNone ==
    (AdCalled /\ AdLacksRequired) =>
        /\ AdResult.raised = NoExc
        /\ AdResult.ret = None

\* C6 witness: the Platform-B adapter was called without a logger on an item
\* whose thumbnail list is empty, and returned None.
C6_Witness ==
    /\ AdCalled
    /\ AdArgs.fn = "youtube"
    /\ ~AdArgs.logger
    /\ AdArgs.track # None
    /\ HasKey(AdArgs.track[1], "thumbnails")
    /\ AdArgs.track[1].thumbnails = <<>>
    /\ AdResult.ret = None

\* item and album carry every key the Platform-B adapter reads, and the lists
\* it takes an element of are not empty
YtComplete(track, album) ==
    /\ track # None
    /\ track[1] \in YtWellFormed
    /\ track[1].thumbnails # <<>>
    /\ album = None => track[1].artists # <<>>
    /\ album # None => album[1] \in YtAlbumsWellFormed

\* C7: given an album object, get_youtube_track_info produces a record both
\* when the album's track list holds an entry with the item's videoId (then
\* track_number is that entry's track number) and when it holds none (then
\* track_number is absent).
C7_AlbumGivenProducesRecord ==
    (AdCalled /\ AdArgs.fn = "youtube" /\ AdArgs.album # None
        /\ YtComplete(AdArgs.track, AdArgs.album)) =>
        LET t == AdArgs.track[1]
            entries == AdArgs.album[1].tracks
            matches == {i \in 1..Len(entries) : entries[i].videoId = t.videoId}
        IN /\ AdResult.ret # None
           /\ matches = {} => AdResult.ret[1].track_number = None
           /\ \A i \in matches :
                AdResult.ret[1].track_number = Some(entries[i].trackNumber)

OmitsOnlyExplicit ==
    \/ /\ AdArgs.fn = "spotify"
       /\ AdArgs.track # None
       /\ \E t \in SpWellFormed : AdArgs.track[1] = Drop(t, "explicit")
    \/ /\ AdArgs.fn = "youtube"
       /\ AdArgs.track # None
       /\ AdArgs.album = None
       /\ \E t \in YtWellFormed :
            /\ t.thumbnails # <<>>
            /\ t.artists # <<>>
            /\ AdArgs.track[1] = Drop(t, "isExplicit")

\* C9: when a raw item has every other expected field but omits its explicit
\* flag, the adapter still produces a record, whose explicit field is false.
C9_OmittedExplicitDefaultsFalse ==
    (AdCalled /\ OmitsOnlyExplicit) =>
        /\ AdResult.ret # None
        /\ AdResult.ret[1].explicit = FALSE

\* ---------------------------------------------------------- apply_metadata
\* "; ".join(names)
RECURSIVE Join(_)
Join(names) ==
    IF names = <<>> THEN <<>>
    ELSE IF Len(names) = 1 THEN <<names[1]>>
    ELSE <<names[1], "; ">> \o Join(Tail(names))

\* `if metadata.album_title:` and `if metadata.track_number:` and the like
TruthyStr(o) == o # None /\ o[1] # ""

TruthyInt(o) == o # None /\ o[1] # 0

\* file[tag] = value
TagWrite(tag, value) == [tag |-> tag, value |-> value]

\* What the collaborators of apply_metadata do: urlopen and file.save succeed,
\* or one of them raises.
TagExternalOutcomes == {"ok", "urlopen_raises", "save_raises"}

MetadataResult(ret, writes, saved) ==
    [ret |-> ret, writes |-> writes, saved |-> saved, errors |-> IF ret THEN 0 ELSE 2]

\* metadata is None or Some(Track); the result lists the assignments made to
\* the file in order, whether file.save() completed, and the returned bool.
apply_metadata(metadata, ext) ==
    \* metadata.title on None: AttributeError, caught at line 485
    IF metadata = None THEN MetadataResult(FALSE, <<>>, FALSE)
    ELSE LET m == metadata[1]
             w1 == <<TagWrite("tracktitle", Some(m.title)),
                     TagWrite("artist", Some(Join(m.artists))),
                     TagWrite("albumartist", Some(Join(m.album_artists)))>>
             w2 == IF TruthyStr(m.album_title)
                   THEN Append(w1, TagWrite("album", m.album_title)) ELSE w1
             \* line 475 is not guarded: an absent release_date is assigned as is
             w3 == Append(w2, TagWrite("year", m.release_date))
         IN
    \* line 476 is not guarded: urlopen(None) raises AttributeError
    IF m.art_url = None THEN MetadataResult(FALSE, w3, FALSE)
    ELSE IF ext = "urlopen_raises" THEN MetadataResult(FALSE, w3, FALSE)
    ELSE LET w4 == Append(w3, TagWrite("artwork", Some(<<"bytes", m.art_url[1]>>)))
             w5 == IF TruthyInt(m.disc_number)
                   THEN Append(w4, TagWrite("discnumber", m.disc_number)) ELSE w4
             w6 == IF TruthyInt(m.track_number)
                   THEN Append(w5, TagWrite("tracknumber", m.track_number)) ELSE w5
             w7 == IF TruthyInt(m.total_tracks)
                   THEN Append(w6, TagWrite("totaltracks", m.total_tracks)) ELSE w6
         IN
    IF ext = "save_raises" THEN MetadataResult(FALSE, w7, FALSE)
    ELSE MetadataResult(TRUE, w7, TRUE)

\* the records the two adapters produce from the raw inputs above
SpRecords == {get_spotify_track_info(t, FALSE).ret : t \in SpInputs}

YtRecords ==
    {get_youtube_track_info(Some(t), q, a, TRUE).ret :
        t \in YtWellFormed, q \in {0, 4}, a \in {None} \cup {Some(b) : b \in YtAlbumsWellFormed}}

InitMeta ==
    /\ \E md \in SpRecords \cup YtRecords, ext \in TagExternalOutcomes :
            mdIn = Some([metadata |-> md, ext |-> ext])
    /\ mdOut = None
    /\ NoAdapterCall
    /\ NoPipeline

CallApplyMetadata ==
    /\ mdOut = None
    /\ mdOut' = Some(apply_metadata(mdIn[1].metadata, mdIn[1].ext))
    /\ UNCHANGED <<mdIn, adVars, plVars>>

NextMeta == CallApplyMetadata

SpecMeta == InitMeta /\ [][NextMeta]_vars

MdCalled == mdOut # None

MdResult == mdOut[1]

\* the tag fields of a record, as Option values
TagFields(m) ==
    [tracktitle |-> Some(m.title),
     artist |-> Some(Join(m.artists)),
     albumartist |-> Some(Join(m.album_artists)),
     album |-> m.album_title,
     year |-> m.release_date,
     artwork |-> IF m.art_url = None THEN None ELSE Some(<<"bytes", m.art_url[1]>>),
     discnumber |-> m.disc_number,
     tracknumber |-> m.track_number,
     totaltracks |-> m.total_tracks]

\* C10: apply_metadata, for any Canonical Track Record, writes every tag field
\* whose record value is present, skips every field whose value is absent
\* without writing a null and without failing, saves the file and reports
\* success (the collaborators urlopen and save not failing).
C10_AbsentFieldsSkipped ==
    (MdCalled /\ mdIn[1].metadata # None /\ mdIn[1].ext = "ok") =>
        LET f == TagFields(mdIn[1].metadata[1])
            w == MdResult.writes
        IN /\ MdResult.ret = TRUE
           /\ MdResult.saved = TRUE
           /\ \A i \in 1..Len(w) : w[i].value # None
           /\ \A tag \in DOMAIN f :
                IF f[tag] = None
                THEN \A i \in 1..Len(w) : w[i].tag # tag
                ELSE \E i \in 1..Len(w) : w[i].tag = tag /\ w[i].value = f[tag]

\* ---------------------------------------------------------------- search_yt
\* f"{artist} {track_name} explicit" if explicit else f"{artist} {track_name}"
SearchQuery(artist, track_name, explicit) ==
    IF explicit THEN <<artist, " ", track_name, " ", "explicit">>
    ELSE <<artist, " ", track_name>>

\* What credentials.search does: it raises, or returns a list of at most one
\* song (limit=1).
SearchResponses ==
    {[raises |-> TRUE, results |-> <<>>],
     [raises |-> FALSE, results |-> <<>>],
     [raises |-> FALSE, results |-> <<[videoId |-> "m1"]>>]}

\* `song.count == 0` (line 441): song is a list, song.count is its bound
\* method, and a method never equals 0.
SongCountIsZero(song) == FALSE

WatchUrl(videoId) == <<"https://music.youtube.com/watch?v=", videoId>>

\* The result of a call: exc is the exception it raises (NoExc if none), val
\* the returned URL or None, query the string handed to credentials.search.
search_yt(artist, track_name, response, explicit) ==
    LET search == SearchQuery(artist, track_name, explicit)
        song == response.results
    IN IF response.raises THEN [exc |-> "ExternalError", val |-> None, query |-> search]
       ELSE IF SongCountIsZero(song) THEN [exc |-> NoExc, val |-> None, query |-> search]
       ELSE IF song = <<>> THEN [exc |-> "IndexError", val |-> None, query |-> search]
       ELSE [exc |-> NoExc, val |-> Some(WatchUrl(song[1].videoId)), query |-> search]

\* ----------------------------------------------------------------- download
\* What yt-dlp does with a URL: the post hook appends the file's path, or the
\* download fails quietly and no hook runs, or ytdl.download raises.
DownloadOutcomes == {"appends", "nothing", "raises"}

download(output, outcome, path) ==
    IF outcome = "raises" THEN [exc |-> "ExternalError", output |-> output]
    ELSE IF outcome = "appends" THEN [exc |-> NoExc, output |-> Append(output, path)]
    ELSE [exc |-> NoExc, output |-> output]

\* the path yt-dlp writes the file of the item at position k to
FilePath(k) == <<"file", k>>

\* `not outputs[-1]`
TruthyPath(p) == p # <<>>

\* ------------------------------------------- the grouping of lines 318 to 326
\* out.rindex(sep) + 1: the number of pieces up to and including the last sep
RIndexPlus1(out, sep) == CHOOSE i \in 1..Len(out) : out[i] = sep /\ \A j \in (i + 1)..Len(out) : out[j] # sep

Contains(out, sep) == \E i \in 1..Len(out) : out[i] = sep

DeriveOuttmpl(out, artist, album_title) ==
    LET i == IF Contains(out, "/") THEN RIndexPlus1(out, "/")
             ELSE IF Contains(out, "\\") THEN RIndexPlus1(out, "\\")
             ELSE 0
        album == IF TruthyStr(album_title) THEN album_title[1] ELSE "Singles"
    IN SubSeq(out, 1, i) \o <<artist, "/", album, "/">> \o SubSeq(out, i + 1, Len(out))

\* ------------------------------------------------------ the playlist source
\* the values of item["track"] in the playlists explored
SpPlaylistItems ==
    {None,
     Some(SpTrack(<<[name |-> "Artist"]>>, "album", <<[name |-> "Artist"]>>,
                  Some(<<"2024", "-", "03", "-", "15">>), <<[url |-> <<"img", 0>>]>>, TRUE)),
     Some(SpTrack(<<[name |-> "Band"]>>, "single", <<[name |-> "Band"]>>,
                  None, <<>>, FALSE)),
     Some(SpTrack(<<>>, "compilation", <<[name |-> "Various Artists"]>>,
                  Some(<<"2024">>), <<[url |-> <<"img", 0>>]>>, FALSE))}

\* a Platform-B playlist track together with what ytauth.get_album returns
\* for its album id
YtPlaylistItems ==
    {[track |-> YtTrack(<<[name |-> "Artist"]>>, 2, FALSE, None), album_obj |-> None],
     [track |-> YtTrack(<<[name |-> "Band"]>>, 1, TRUE, Some([id |-> "alb"])),
      album_obj |-> Some(YtAlbum(<<[videoId |-> "v0", trackNumber |-> 1]>>))],
     [track |-> YtTrack(<<[name |-> "Band"]>>, 1, FALSE, Some([id |-> "alb"])),
      album_obj |-> Some(YtAlbum(<<[videoId |-> "v1", trackNumber |-> 2]>>))],
     [track |-> YtTrack(<<[name |-> "Artist"]>>, 0, FALSE, None), album_obj |-> None]}

SeqsUpTo(S, n) == UNION {[1..m -> S] : m \in 0..n}

\* ytdlp_options["outtmpl"]["default"] as parsed from the yt-dlp options
Templates == {<<"music", "/", "%(title)s.%(ext)s">>, <<"%(title)s.%(ext)s">>}

\* ThumbnailQuality[...].value, 0 when the option is not configured
ConfiguredQualities == {0, 4}

\* ------------------------------------------------------------ the pipelines
LogEntry(level, msg, k) == [level |-> level, msg |-> msg, item |-> k]

\* logger.error(<context>) and logger.error(e, stack_info=True, exc_info=True)
ErrorPair(msg, k) == <<LogEntry("error", msg, k), LogEntry("error", "exception", k)>>

Exc(kind, at) == Some([kind |-> kind, at |-> at])

Init ==
    /\ NoAdapterCall
    /\ NoMetadataCall
    /\ platform \in {"spotify", "youtube"}
    /\ sort \in BOOLEAN
    /\ quality \in (IF platform = "youtube" THEN ConfiguredQualities ELSE {0})
    /\ playlist \in (IF platform = "spotify" THEN SeqsUpTo(SpPlaylistItems, MaxItems)
                     ELSE SeqsUpTo(YtPlaylistItems, MaxItems))
    /\ config_outtmpl \in Templates
    /\ outtmpl = config_outtmpl
    /\ tracks = <<>>
    /\ idx = 1
    /\ pc = "start"
    /\ track_info = None
    /\ url = None
    /\ outputs = <<>>
    /\ log = <<>>
    /\ searches = <<>>
    /\ downloads = <<>>
    /\ tagwrites = <<>>
    /\ raised = None

\* line 297: every item is adapted before the loop starts, without a logger
SpFetch ==
    /\ pc = "start"
    /\ platform = "spotify"
    /\ tracks' = [k \in 1..Len(playlist) |-> get_spotify_track_info(playlist[k], FALSE).ret]
    /\ pc' = "sp_loop"
    /\ UNCHANGED <<adVars, mdVars, platform, sort, config_outtmpl, quality, playlist, idx, track_info, url,
                   outtmpl, outputs, log, searches, downloads, tagwrites, raised>>

\* line 298: the list is exhausted
SpLoopDone ==
    /\ pc = "sp_loop"
    /\ idx > Len(tracks)
    /\ pc' = "Done"
    /\ UNCHANGED <<adVars, mdVars, platform, sort, config_outtmpl, quality, playlist, tracks, idx, track_info,
                   url, outtmpl, outputs, log, searches, downloads, tagwrites, raised>>

\* lines 299-301: `if not track`
SpSkipAbsent ==
    /\ pc = "sp_loop"
    /\ idx <= Len(tracks)
    /\ tracks[idx] = None
    /\ log' = Append(log, LogEntry("error", "unable to retrieve track", idx))
    /\ idx' = idx + 1
    /\ UNCHANGED <<adVars, mdVars, platform, sort, config_outtmpl, quality, playlist, tracks, pc, track_info,
                   url, outtmpl, outputs, searches, downloads, tagwrites, raised>>

\* lines 304-314: the search, inside try/except Exception
SpSearch ==
    /\ pc = "sp_loop"
    /\ idx <= Len(tracks)
    /\ tracks[idx] # None
    /\ \E response \in SearchResponses :
        LET track == tracks[idx][1] IN
        IF track.artists = <<>>
        THEN \* track.artists[0] in the f-string of line 305: IndexError, caught
             /\ log' = log \o ErrorPair("exception occurred while retrieving url", idx)
             /\ idx' = idx + 1
             /\ UNCHANGED <<pc, track_info, url, searches>>
        ELSE LET r == search_yt(track.title, track.artists[1], response, track.explicit)
                 sent == [item |-> idx, query |-> r.query, results |-> response.results,
                          raises |-> response.raises, exc |-> r.exc, url |-> r.val]
                 searching == LogEntry("info", "searching for", idx)
             IN /\ searches' = Append(searches, sent)
                /\ IF r.exc # NoExc
                   THEN /\ log' = log \o <<searching>> \o ErrorPair("exception occurred while retrieving url", idx)
                        /\ idx' = idx + 1
                        /\ UNCHANGED <<pc, track_info, url>>
                   ELSE IF r.val = None
                   THEN /\ log' = log \o <<searching, LogEntry("info", "no results for", idx)>>
                        /\ idx' = idx + 1
                        /\ UNCHANGED <<pc, track_info, url>>
                   ELSE /\ log' = Append(log, searching)
                        /\ url' = r.val
                        /\ track_info' = tracks[idx]
                        /\ pc' = "sp_download"
                        /\ UNCHANGED idx
    /\ UNCHANGED <<adVars, mdVars, platform, sort, config_outtmpl, quality, playlist, tracks,
                   outtmpl, outputs, downloads, tagwrites, raised>>

\* an exception leaves the pipeline function: the run ends where it is
Abort(kind, at) ==
    /\ pc' = "Aborted"
    /\ raised' = Exc(kind, at)

Grouping == sort /\ outtmpl # <<>>

\* what music_tag.load_file does with the path
LoadOutcomes == {"ok", "raises"}

\* lines 316-333: grouping, download, read of the last logged path
SpDownload ==
    /\ pc = "sp_download"
    /\ \E outcome \in DownloadOutcomes :
        LET track == track_info[1]
            out == IF Grouping
                   THEN DeriveOuttmpl(outtmpl, track.artists[1], track.album_title)
                   ELSE outtmpl
            res == download(outputs, outcome, FilePath(idx))
            downloading == LogEntry("info", "downloading from url", idx)
        IN /\ outtmpl' = out
           /\ downloads' = Append(downloads, [item |-> idx, url |-> url[1], outtmpl |-> out,
                                              outcome |-> outcome])
           /\ outputs' = res.output
           /\ IF res.exc # NoExc
              THEN /\ Abort(res.exc, "download")
                   /\ log' = Append(log, downloading)
                   /\ UNCHANGED idx
              ELSE IF res.output = <<>>
              THEN \* outputs[-1] on an empty list
                   /\ Abort("IndexError", "outputs[-1]")
                   /\ log' = Append(log, downloading)
                   /\ UNCHANGED idx
              ELSE IF ~TruthyPath(res.output[Len(res.output)])
              THEN /\ log' = log \o <<downloading, LogEntry("warning", "unable to apply metadata", idx)>>
                   /\ idx' = idx + 1
                   /\ pc' = "sp_loop"
                   /\ UNCHANGED raised
              ELSE /\ log' = Append(log, downloading)
                   /\ pc' = "sp_tag"
                   /\ UNCHANGED <<idx, raised>>
    /\ UNCHANGED <<adVars, mdVars, platform, sort, config_outtmpl, quality, playlist, tracks, track_info, url,
                   searches, tagwrites>>

\* lines 336-341 and 385-390: load the last logged file, apply the metadata
TagStep(loop_pc) ==
    \E load \in LoadOutcomes, ext \in TagExternalOutcomes :
        LET file == outputs[Len(outputs)]
            r == apply_metadata(track_info, ext)
        IN IF load = "raises"
           THEN /\ Abort("ExternalError", "load_file")
                /\ UNCHANGED <<idx, log, tagwrites>>
           ELSE /\ tagwrites' = Append(tagwrites, [item |-> idx, file |-> file,
                                                   metadata |-> track_info, ret |-> r.ret,
                                                   writes |-> r.writes, saved |-> r.saved])
                /\ log' = IF r.ret
                          THEN Append(log, LogEntry("info", "applied metadata", idx))
                          ELSE log \o ErrorPair("exception occurred while applying metadata", idx)
                                   \o <<LogEntry("warning", "unable to apply metadata", idx)>>
                /\ idx' = idx + 1
                /\ pc' = loop_pc
                /\ UNCHANGED raised

SpTag ==
    /\ pc = "sp_tag"
    /\ TagStep("sp_loop")
    /\ UNCHANGED <<adVars, mdVars, platform, sort, config_outtmpl, quality, playlist, tracks, track_info, url,
                   outtmpl, outputs, searches, downloads>>

\* line 360: the playlist's tracks are fetched, the loop starts
YtFetch ==
    /\ pc = "start"
    /\ platform = "youtube"
    /\ pc' = "yt_loop"
    /\ UNCHANGED <<adVars, mdVars, platform, sort, config_outtmpl, quality, playlist, tracks, idx, track_info,
                   url, outtmpl, outputs, log, searches, downloads, tagwrites, raised>>

\* line 361: the list is exhausted
YtLoopDone ==
    /\ pc = "yt_loop"
    /\ idx > Len(playlist)
    /\ pc' = "Done"
    /\ UNCHANGED <<adVars, mdVars, platform, sort, config_outtmpl, quality, playlist, tracks, idx, track_info,
                   url, outtmpl, outputs, log, searches, downloads, tagwrites, raised>>

\* what ytauth.get_album does
GetAlbumOutcomes == {"ok", "raises"}

\* lines 363-365: album lookup, adaptation with the logger, URL
YtAdapt ==
    /\ pc = "yt_loop"
    /\ idx <= Len(playlist)
    /\ \E ga \in GetAlbumOutcomes :
        LET track == playlist[idx].track
            wants_album == HasKey(track, "album") /\ track.album # None
            album == IF wants_album THEN playlist[idx].album_obj ELSE None
            r == get_youtube_track_info(Some(track), quality, album, TRUE)
            adapter_errors == IF r.errors = 0 THEN <<>>
                              ELSE <<LogEntry("error", "exception", idx),
                                     LogEntry("error", "could not retrieve track info", idx)>>
        IN IF ~HasKey(track, "album")
           THEN /\ Abort("KeyError", "track[album]")
                /\ UNCHANGED <<track_info, url, log>>
           ELSE IF wants_album /\ ga = "raises"
           THEN /\ Abort("ExternalError", "get_album")
                /\ UNCHANGED <<track_info, url, log>>
           ELSE IF ~HasKey(track, "videoId")
           THEN /\ Abort("KeyError", "track[videoId]")
                /\ track_info' = r.ret
                /\ log' = log \o adapter_errors
                /\ UNCHANGED url
           ELSE /\ track_info' = r.ret
                /\ url' = Some(WatchUrl(track.videoId))
                /\ log' = log \o adapter_errors \o <<LogEntry("info", "downloading from url", idx)>>
                /\ pc' = "yt_download"
                /\ UNCHANGED raised
    /\ UNCHANGED <<adVars, mdVars, platform, sort, config_outtmpl, quality, playlist, tracks, idx,
                   outtmpl, outputs, searches, downloads, tagwrites>>

\* lines 367-382: grouping, download, read of the last logged path
YtDownload ==
    /\ pc = "yt_download"
    /\ \E outcome \in DownloadOutcomes :
        IF Grouping /\ track_info = None
        THEN \* track_info.artists on None
             /\ Abort("AttributeError", "track_info.artists")
             /\ UNCHANGED <<idx, outtmpl, outputs, log, downloads>>
        ELSE IF Grouping /\ track_info[1].artists = <<>>
        THEN /\ Abort("IndexError", "track_info.artists[0]")
             /\ UNCHANGED <<idx, outtmpl, outputs, log, downloads>>
        ELSE
        LET out == IF Grouping
                   THEN DeriveOuttmpl(outtmpl, track_info[1].artists[1], track_info[1].album_title)
                   ELSE outtmpl
            res == download(outputs, outcome, FilePath(idx))
        IN /\ outtmpl' = out
           /\ downloads' = Append(downloads, [item |-> idx, url |-> url[1], outtmpl |-> out,
                                              outcome |-> outcome])
           /\ outputs' = res.output
           /\ IF res.exc # NoExc
              THEN /\ Abort(res.exc, "download")
                   /\ UNCHANGED <<idx, log>>
              ELSE IF res.output = <<>>
              THEN /\ Abort("IndexError", "outputs[-1]")
                   /\ UNCHANGED <<idx, log>>
              ELSE IF ~TruthyPath(res.output[Len(res.output)])
              THEN /\ log' = Append(log, LogEntry("warning", "unable to apply metadata", idx))
                   /\ idx' = idx + 1
                   /\ pc' = "yt_loop"
                   /\ UNCHANGED raised
              ELSE /\ pc' = "yt_tag"
                   /\ UNCHANGED <<idx, log, raised>>
    /\ UNCHANGED <<adVars, mdVars, platform, sort, config_outtmpl, quality, playlist, tracks, track_info, url,
                   searches, tagwrites>>

YtTag ==
    /\ pc = "yt_tag"
    /\ TagStep("yt_loop")
    /\ UNCHANGED <<adVars, mdVars, platform, sort, config_outtmpl, quality, playlist, tracks, track_info, url,
                   outtmpl, outputs, searches, downloads>>

download_spotify_playlist == SpFetch \/ SpLoopDone \/ SpSkipAbsent \/ SpSearch \/ SpDownload \/ SpTag

download_youtube_playlist == YtFetch \/ YtLoopDone \/ YtAdapt \/ YtDownload \/ YtTag

Next == download_spotify_playlist \/ download_youtube_playlist

Spec == Init /\ [][Next]_vars

\* ---------------------------------------------- properties of the pipelines
\* the steps of one track whose failure the pipelines are to survive
TrackSteps == {"track_info.artists", "track_info.artists[0]", "download", "outputs[-1]", "load_file"}

\* C1: in both pipelines, whatever the per-track outcomes (no record from the
\* adapter, search raises, download raises or appends no path, loading the
\* file or the tag-write fails), no failure at a step of one track ends the
\* run before Done.
C1_NoTrackFailureAbortsRun ==
    ~(pc = "Aborted" /\ raised # None /\ raised[1].at \in TrackSteps)

Finished == pc \in {"Done", "Aborted"}

ErrorsLoggedFor(k) == {i \in 1..Len(log) : log[i].item = k /\ log[i].level = "error"}

SearchedItems == {searches[i].item : i \in 1..Len(searches)}

MatchedItems == {searches[i].item : i \in {j \in 1..Len(searches) : searches[j].url # None}}

DownloadedItems == {downloads[i].item : i \in 1..Len(downloads)}

\* C2: a Platform-A run completes; the number of triggered downloads equals the
\* number of items that were adapted to a record and matched to a URL; an item
\* without a record triggers no search and no download and is logged as one
\* adaptation failure.
C2_SpotifyDownloadsEqualMatches ==
    (platform = "spotify" /\ Finished) =>
        /\ pc = "Done"
        /\ Len(downloads) = Cardinality(MatchedItems)
        /\ DownloadedItems = MatchedItems
        /\ \A k \in 1..Len(tracks) :
            tracks[k] = None =>
                /\ k \notin SearchedItems
                /\ k \notin DownloadedItems
                /\ Cardinality(ErrorsLoggedFor(k)) = 1
                /\ \E i \in ErrorsLoggedFor(k) : log[i].msg = "unable to retrieve track"

\* C3: the query the Platform-A pipeline sends to the search for a track with
\* title T and primary artist A is "A T", and "A T explicit" when the track is
\* explicit.
C3_QueryIsArtistThenTitle ==
    \A i \in 1..Len(searches) :
        LET track == tracks[searches[i].item][1]
            A == track.artists[1]
            T == track.title
        IN searches[i].query =
            IF track.explicit THEN <<A, " ", T, " ", "explicit">> ELSE <<A, " ", T>>

\* C4: when the search returns zero results search_yt returns None without
\* raising, the pipeline logs it at info level and not as an error, and no
\* download is triggered for the track; when the search returns a result
\* search_yt returns the URL of the first one.
C4_ZeroResultsReturnsNone ==
    \A i \in 1..Len(searches) :
        LET s == searches[i] IN
        /\ (~s.raises /\ s.results = <<>>) =>
            /\ s.exc = NoExc
            /\ s.url = None
            /\ \E j \in 1..Len(log) : log[j] = LogEntry("info", "no results for", s.item)
            /\ ErrorsLoggedFor(s.item) = {}
            /\ s.item \notin DownloadedItems
        /\ (~s.raises /\ s.results # <<>>) =>
            s.url = Some(WatchUrl(s.results[1].videoId))

\* the record line 363 builds for the item at position k of a Platform-B
\* playlist: None when the adapter fails
YtRecordOf(k) ==
    LET track == playlist[k].track
        album == IF track.album # None THEN playlist[k].album_obj ELSE None
    IN get_youtube_track_info(Some(track), quality, album, TRUE).ret

TagWrittenItems == {tagwrites[i].item : i \in 1..Len(tagwrites)}

\* C11: in the Platform-B pipeline an item whose adaptation yields no record
\* triggers no path derivation, no download and no tag-write, and the run goes
\* on to the next item, with grouping on or off.
C11_YoutubeNoRecordIsSkipped ==
    platform = "youtube" =>
        \A k \in 1..Len(playlist) :
            YtRecordOf(k) = None =>
                /\ k \notin DownloadedItems
                /\ k \notin TagWrittenItems
                /\ ~(pc = "Aborted" /\ idx = k /\ raised[1].at = "track_info.artists")

\* the record of the item at position k, in either pipeline
RecordOf(k) == IF platform = "spotify" THEN tracks[k] ELSE YtRecordOf(k)

\* the pieces "artist/album/" of a record, album falling back to "Singles"
SegmentOf(record) ==
    <<record.artists[1], "/",
      IF record.album_title = None THEN "Singles" ELSE record.album_title[1], "/">>

\* the run's initial template with one segment placed before its filename
WithOneSegment(template, segment) ==
    SubSeq(template, 1, Len(template) - 1) \o segment \o <<template[Len(template)]>>

\* C12: with grouping requested, the template in effect when the k-th track's
\* download is triggered is the run's initial template with exactly one
\* inserted segment, "artist_k/album_k/", immediately before the filename;
\* segments derived for earlier tracks are not present in it.
C12_TemplateHasOnlyOwnSegment ==
    sort =>
        \A i \in 1..Len(downloads) :
            downloads[i].outtmpl =
                WithOneSegment(config_outtmpl, SegmentOf(RecordOf(downloads[i].item)[1]))

\* C13: whenever tag-write is triggered for the k-th track, the file it is
\* applied to is the path the k-th track's own download appended to the log;
\* when that download appends no path, no earlier file receives the k-th
\* track's metadata and the read of the log's last entry does not fail.
C13_TagWriteUsesOwnDownload ==
    /\ \A i \in 1..Len(tagwrites) :
        /\ tagwrites[i].file = FilePath(tagwrites[i].item)
        /\ \E j \in 1..Len(downloads) :
            /\ downloads[j].item = tagwrites[i].item
            /\ downloads[j].outcome = "appends"
    /\ ~(pc = "Aborted" /\ raised[1].at = "outputs[-1]")

====
